---- MODULE Spec2Model ----
(***************************************************************************)
(* A model of src/config.rs: the preference store kept under ~/.ghl (the   *)
(* token and the default pull request description) and the interactive    *)
(* flows ask_commit, ask_init and ask_pr.                                  *)
(*                                                                         *)
(* Text is a sequence of one-character strings, so that trimming,         *)
(* splitting, replacing and case conversion are computed character by     *)
(* character as the Rust code computes them.                               *)
(***************************************************************************)
EXTENDS Integers, Sequences, FiniteSets, TLC

VARIABLES
    fs,             \* the file system under $HOME: the .ghl directory and its two files
    op,             \* the Config function called last ("none" before any call)
    arg,            \* what the prompt of that call returned (an optional text)
    ret,            \* what that call returned
    calls,          \* the number of store calls made so far
    lastTok,        \* history: the trimmed input of the last set_github_token that returned Ok(true)
    spc,            \* crash model: position inside a running set_* call ("idle" between calls)
    sfile,          \* crash model: the file the running set_* call writes
    sdata,          \* crash model: the text the running set_* call writes
    madeDir,        \* crash model: the running/crashed call created the directory itself
    crashed,        \* crash model: the file whose set_* call crashed last ("" when none did)
    flow,           \* prompts: the entry point running ("none", "commit", "init", "pr")
    pc,             \* prompts: the prompt the flow waits at, or "done"
    linear_branch,  \* ask_pr: the answer to "Linear branch name:"
    _type,          \* ask_commit: the keyword of the selected option
    scope,          \* ask_commit: the answer to "Scope (optional):" (an optional text)
    name,           \* ask_commit: the trimmed answer to "Name:"
    commit_name,    \* ask_commit: the commit message
    branch,         \* ask_init, ask_pr: the branch name
    gh_compare_url, \* ask_init: the compare URL
    pr_name,        \* ask_pr: the pull request name
    confirm,        \* ask_init: the answer to "Confirm? (y/n)" ("none" until asked)
    raised,         \* prompts: the error a prompt ended with ("" when none did)
    result          \* prompts: what the entry point returned

storeVars == <<fs, op, arg, ret, calls, lastTok>>
crashVars == <<spc, sfile, sdata, madeDir, crashed>>
flowVars == <<flow, pc, linear_branch, _type, scope, name, commit_name, branch,
              gh_compare_url, pr_name, confirm, raised, result>>
vars == <<storeVars, crashVars, flowVars>>

(***************************************************************************)
(* Bounds of the model.                                                    *)
(***************************************************************************)
MaxLen == 2         \* longest text answered to a token or description prompt
MaxCalls == 5       \* most store calls in one behaviour

(***************************************************************************)
(* Text helpers.                                                           *)
(***************************************************************************)
\* All texts over the characters `alpha` of length at most n.
Strs(alpha, n) == UNION {[1..k -> alpha] : k \in 0..n}

\* An optional text: Rust's Option<String>.
None == [some |-> FALSE, val |-> <<>>]
Some(s) == [some |-> TRUE, val |-> s]

\* char::is_whitespace on the characters the model uses.
IsWhitespace(c) == c \in {" ", "\t", "\n"}

RECURSIVE TrimStart(_)
TrimStart(s) ==
    IF s = <<>> THEN <<>>
    ELSE IF IsWhitespace(Head(s)) THEN TrimStart(Tail(s))
    ELSE s

RECURSIVE TrimEnd(_)
TrimEnd(s) ==
    IF s = <<>> THEN <<>>
    ELSE IF IsWhitespace(s[Len(s)]) THEN TrimEnd(SubSeq(s, 1, Len(s) - 1))
    ELSE s

\* str::trim: leading and trailing whitespace removed.
Trim(s) == TrimEnd(TrimStart(s))

\* String::is_empty.
is_empty(s) == Len(s) = 0

(***************************************************************************)
(* Return values: Result<bool, _> and Result<String, _>.                   *)
(***************************************************************************)
OkBool(b) == [kind |-> "bool", b |-> b, s |-> <<>>, err |-> ""]
OkStr(s) == [kind |-> "str", b |-> FALSE, s |-> s, err |-> ""]
Err(e) == [kind |-> "err", b |-> FALSE, s |-> <<>>, err |-> e]
NoRet == [kind |-> "none", b |-> FALSE, s |-> <<>>, err |-> ""]

(***************************************************************************)
(* The file system calls the store makes (std::fs), with no I/O failure    *)
(* other than a missing directory or file.                                 *)
(***************************************************************************)
NoFile == [exists |-> FALSE, data |-> <<>>]

\* Config::get_paths: ~/.ghl, ~/.ghl/token, ~/.ghl/desc.md.
get_paths == [dir_path |-> ".ghl", token_path |-> "token", default_desc_path |-> "desc.md"]

Paths == {get_paths.token_path, get_paths.default_desc_path}

\* fs::read_dir(&dir_path).is_err()
read_dir_is_err(f) == ~f.dir

\* fs::create_dir(&dir_path)
create_dir(f) == [f EXCEPT !.dir = TRUE]

\* fs::read(&path).is_err()
read_is_err(f, p) == ~f.files[p].exists

\* fs::File::create(&path): the file exists and is empty.
File_create(f, p) == [f EXCEPT !.files[p] = [exists |-> TRUE, data |-> <<>>]]

\* A write that appends to what the file holds instead of replacing it.
write_Append(f, p, data) ==
    [f EXCEPT !.files[p] = [exists |-> TRUE, data |-> f.files[p].data \o data]]

\* fs::write(&path, data): the file holds exactly data.
write(f, p, data) == [f EXCEPT !.files[p] = [exists |-> TRUE, data |-> data]]

\* fs::read_to_string(path)
read_to_string(f, p) ==
    IF f.files[p].exists THEN OkStr(f.files[p].data) ELSE Err("NotFound")

\* The directory check and creation of both setters.
EnsureDir(f) == IF read_dir_is_err(f) THEN create_dir(f) ELSE f

\* The file check and creation of both setters.
EnsureFile(f, p) == IF read_is_err(f, p) THEN File_create(f, p) ELSE f

(***************************************************************************)
(* The preference store.  Each function maps the file system and the       *)
(* prompt's answer to the new file system and the returned value.          *)
(***************************************************************************)
get_github_token(f) == read_to_string(f, get_paths.token_path)

get_default_desc(f) == read_to_string(f, get_paths.default_desc_path)

\* The text set_github_token writes for an answer.
TokenToWrite(token) == Trim(token)

set_github_token(f, input) ==
    IF ~input.some \/ is_empty(input.val)
    THEN [fs |-> f, ret |-> OkBool(FALSE)]
    ELSE [fs |-> write(EnsureFile(EnsureDir(f), get_paths.token_path),
                       get_paths.token_path, TokenToWrite(input.val)),
          ret |-> OkBool(TRUE)]

\* get_default_desc().unwrap_or_default()
ActualDesc(f) == IF get_default_desc(f).kind = "str" THEN get_default_desc(f).s ELSE <<>>

\* set_default_desc without the comparison with the stored text.
DescSkipped_NoCompare(f, input) == ~input.some \/ is_empty(input.val)

\* Whether set_default_desc returns Ok(false) without writing.
DescSkipped(f, input) ==
    \/ ~input.some
    \/ is_empty(input.val)
    \/ ActualDesc(f) = input.val

set_default_desc(f, input) ==
    IF DescSkipped(f, input)
    THEN [fs |-> f, ret |-> OkBool(FALSE)]
    ELSE [fs |-> write(EnsureFile(EnsureDir(f), get_paths.default_desc_path),
                       get_paths.default_desc_path, input.val),
          ret |-> OkBool(TRUE)]

(***************************************************************************)
(* Specification Spec: calls of the four store functions, each one atomic. *)
(***************************************************************************)
StoreChars == {"a", " "}

\* What a skippable prompt returns: nothing, or a text.
TextInputs == {None} \cup {Some(s) : s \in Strs(StoreChars, MaxLen)}

FlowIdle ==
    /\ flow = "none"
    /\ pc = "idle"
    /\ linear_branch = <<>>
    /\ _type = <<>>
    /\ scope = None
    /\ name = <<>>
    /\ commit_name = <<>>
    /\ branch = <<>>
    /\ gh_compare_url = <<>>
    /\ pr_name = <<>>
    /\ confirm = "none"
    /\ raised = ""
    /\ result = NoRet

CrashIdle ==
    /\ spc = "idle"
    /\ sfile = ""
    /\ sdata = <<>>
    /\ madeDir = FALSE
    /\ crashed = ""

StoreInit ==
    /\ fs = [dir |-> FALSE, files |-> [p \in Paths |-> NoFile]]
    /\ op = "none"
    /\ arg = None
    /\ ret = NoRet
    /\ calls = 0
    /\ lastTok = None

Init == StoreInit /\ CrashIdle /\ FlowIdle

SetGithubToken ==
    \E input \in TextInputs :
        LET r == set_github_token(fs, input) IN
        /\ calls < MaxCalls
        /\ calls' = calls + 1
        /\ fs' = r.fs
        /\ op' = "set_github_token"
        /\ arg' = input
        /\ ret' = r.ret
        /\ lastTok' = IF r.ret = OkBool(TRUE) THEN Some(Trim(input.val)) ELSE lastTok
        /\ UNCHANGED <<crashVars, flowVars>>

GetGithubToken ==
    /\ spc = "idle"
    /\ calls < MaxCalls
    /\ calls' = calls + 1
    /\ op' = "get_github_token"
    /\ arg' = None
    /\ ret' = get_github_token(fs)
    /\ UNCHANGED <<fs, lastTok, crashVars, flowVars>>

SetDefaultDesc ==
    \E input \in TextInputs :
        LET r == set_default_desc(fs, input) IN
        /\ calls < MaxCalls
        /\ calls' = calls + 1
        /\ fs' = r.fs
        /\ op' = "set_default_desc"
        /\ arg' = input
        /\ ret' = r.ret
        /\ UNCHANGED <<lastTok, crashVars, flowVars>>

GetDefaultDesc ==
    /\ spc = "idle"
    /\ calls < MaxCalls
    /\ calls' = calls + 1
    /\ op' = "get_default_desc"
    /\ arg' = None
    /\ ret' = get_default_desc(fs)
    /\ UNCHANGED <<fs, lastTok, crashVars, flowVars>>

Next ==
    \/ SetGithubToken
    \/ GetGithubToken
    \/ SetDefaultDesc
    \/ GetDefaultDesc

Spec == Init /\ [][Next]_vars

(***************************************************************************)
(* Claims about the store under Spec.                                      *)
(***************************************************************************)
\* An answer that is absent, empty, or empty once trimmed.
Blank(input) == ~input.some \/ is_empty(Trim(input.val))

\* C1: set_github_token answered with nothing, with the empty text or with
\* whitespace only returns Ok(false) and leaves the token file as it was, so
\* that get_github_token returns what it returned before the call.
C1_BlankTokenIsNoOp ==
    [][(op' = "set_github_token" /\ Blank(arg'))
        => /\ ret' = OkBool(FALSE)
           /\ fs'.files[get_paths.token_path] = fs.files[get_paths.token_path]
           /\ get_github_token(fs') = get_github_token(fs)]_vars

\* The text x differs from the stored description (none stored differs from any).
DiffersFromStored(f, x) ==
    \/ ~f.files[get_paths.default_desc_path].exists
    \/ f.files[get_paths.default_desc_path].data # x

\* C2: set_default_desc answered with a non-empty x that differs from the
\* stored description returns Ok(true) and stores x; answered with the same x
\* again right after, it returns Ok(false), writes nothing, and
\* get_default_desc returns exactly x.
C2_SameDescTwice ==
    [][/\ (/\ op' = "set_default_desc"
           /\ arg'.some
           /\ ~is_empty(arg'.val)
           /\ DiffersFromStored(fs, arg'.val))
          => (ret' = OkBool(TRUE) /\ get_default_desc(fs') = OkStr(arg'.val))
       /\ (/\ op = "set_default_desc"
           /\ ret = OkBool(TRUE)
           /\ op' = "set_default_desc"
           /\ arg' = arg)
          => (/\ ret' = OkBool(FALSE)
              /\ fs' = fs
              /\ get_default_desc(fs') = OkStr(arg.val))]_vars

\* C2 witness: the second of two equal calls has returned Ok(false) and the
\* stored description is the answer.
C2_Witness ==
    /\ op = "set_default_desc"
    /\ arg.some
    /\ ~is_empty(arg.val)
    /\ ret = OkBool(FALSE)
    /\ get_default_desc(fs) = OkStr(arg.val)

\* What get_github_token must return given the history of set_github_token calls.
ExpectedToken == IF lastTok.some THEN OkStr(lastTok.val) ELSE Err("NotFound")

\* C3: get_github_token returns the trimmed input of the last set_github_token
\* that returned Ok(true), nothing of an earlier value, and NotFound when no
\* call has returned Ok(true) yet; set_default_desc never changes it.
C3_LastTokenWins ==
    /\ get_github_token(fs) = ExpectedToken
    /\ (op = "get_github_token" => ret = ExpectedToken)

\* C3 witness: a token is read back while a description is stored as well.
C3_Witness ==
    /\ op = "get_github_token"
    /\ ret.kind = "str"
    /\ ret.s # <<>>
    /\ lastTok = Some(ret.s)
    /\ fs.files[get_paths.default_desc_path].exists

(***************************************************************************)
(* Specification SpecCrash: the setters run one file system call at a      *)
(* time and the process may die between any two of them.                   *)
(***************************************************************************)
\* The prompt is answered; a skipped call returns at once, any other goes on
\* to the directory check.
BeginSetToken ==
    \E input \in TextInputs :
        /\ spc = "idle"
        /\ calls < MaxCalls
        /\ calls' = calls + 1
        /\ op' = "set_github_token"
        /\ arg' = input
        /\ crashed' = ""
        /\ madeDir' = FALSE
        /\ IF ~input.some \/ is_empty(input.val)
           THEN /\ ret' = OkBool(FALSE)
                /\ UNCHANGED <<spc, sfile, sdata>>
           ELSE /\ ret' = NoRet
                /\ spc' = "dir"
                /\ sfile' = get_paths.token_path
                /\ sdata' = TokenToWrite(input.val)
        /\ UNCHANGED <<fs, lastTok, flowVars>>

BeginSetDesc ==
    \E input \in TextInputs :
        /\ spc = "idle"
        /\ calls < MaxCalls
        /\ calls' = calls + 1
        /\ op' = "set_default_desc"
        /\ arg' = input
        /\ crashed' = ""
        /\ madeDir' = FALSE
        /\ IF DescSkipped(fs, input)
           THEN /\ ret' = OkBool(FALSE)
                /\ UNCHANGED <<spc, sfile, sdata>>
           ELSE /\ ret' = NoRet
                /\ spc' = "dir"
                /\ sfile' = get_paths.default_desc_path
                /\ sdata' = input.val
        /\ UNCHANGED <<fs, lastTok, flowVars>>

\* read_dir, and create_dir when it failed.
StepDir ==
    /\ spc = "dir"
    /\ fs' = EnsureDir(fs)
    /\ madeDir' = read_dir_is_err(fs)
    /\ spc' = "file"
    /\ UNCHANGED <<op, arg, ret, calls, lastTok, sfile, sdata, crashed, flowVars>>

\* read, and File::create when it failed.
StepFile ==
    /\ spc = "file"
    /\ fs' = EnsureFile(fs, sfile)
    /\ spc' = "write"
    /\ UNCHANGED <<op, arg, ret, calls, lastTok, sfile, sdata, madeDir, crashed, flowVars>>

\* fs::write opens the file truncating it ...
StepWriteOpen ==
    /\ spc = "write"
    /\ fs' = File_create(fs, sfile)
    /\ spc' = "write_all"
    /\ UNCHANGED <<op, arg, ret, calls, lastTok, sfile, sdata, madeDir, crashed, flowVars>>

\* ... and writes the whole text; the setter returns Ok(true).
StepWriteAll ==
    /\ spc = "write_all"
    /\ fs' = write(fs, sfile, sdata)
    /\ ret' = OkBool(TRUE)
    /\ lastTok' = IF sfile = get_paths.token_path THEN Some(sdata) ELSE lastTok
    /\ spc' = "idle"
    /\ sfile' = ""
    /\ sdata' = <<>>
    /\ UNCHANGED <<op, arg, calls, madeDir, crashed, flowVars>>

\* The process dies inside a setter: the file system stays as it is.
Crash ==
    /\ spc # "idle"
    /\ crashed' = sfile
    /\ madeDir' = (madeDir /\ spc # "dir")
    /\ ret' = Err("crashed")
    /\ spc' = "idle"
    /\ sfile' = ""
    /\ sdata' = <<>>
    /\ UNCHANGED <<fs, op, arg, calls, lastTok, flowVars>>

NextCrash ==
    \/ BeginSetToken
    \/ BeginSetDesc
    \/ StepDir
    \/ StepFile
    \/ StepWriteOpen
    \/ StepWriteAll
    \/ Crash
    \/ GetGithubToken
    \/ GetDefaultDesc

SpecCrash == Init /\ [][NextCrash]_vars

\* The getter of a stored file.
GetterOf(p) == IF p = get_paths.token_path THEN "get_github_token" ELSE "get_default_desc"

\* C10: after a setter that created the directory crashed before its write
\* completed, the file is empty or missing and the next get of that value
\* reports NotFound.
C10_CrashReadsNotFound ==
    (crashed # "" /\ madeDir)
        => /\ fs.files[crashed].data = <<>>
           /\ (op = GetterOf(crashed) => ret = Err("NotFound"))

(***************************************************************************)
(* The prompts: ask_commit, ask_init and ask_pr.                           *)
(***************************************************************************)
MaxName == 1        \* longest generated answer to "Name:"
MaxScope == 1       \* longest generated answer to "Scope (optional):"
MaxBranch == 3      \* longest generated answer to "Linear branch name:"

\* The options of the "Type:" prompt.
type_options == <<
    <<"f", "e", "a", "t", " ", " ", " ", " ", " ", " ", " ", " ", "A", " ", "n", "e", "w", " ", "f", "e", "a", "t", "u", "r", "e">>,
    <<"f", "i", "x", " ", " ", " ", " ", " ", " ", " ", " ", " ", "A", " ", "b", "u", "g", " ", "f", "i", "x">>,
    <<"d", "o", "c", "s", " ", " ", " ", " ", " ", " ", " ", " ", "D", "o", "c", "u", "m", "e", "n", "t", "a", "t", "i", "o", "n", " ", "o", "n", "l", "y", " ", "c", "h", "a", "n", "g", "e", "s">>,
    <<"s", "t", "y", "l", "e", " ", " ", " ", " ", " ", " ", " ", "C", "h", "a", "n", "g", "e", "s", " ", "t", "h", "a", "t", " ", "d", "o", " ", "n", "o", "t", " ", "a", "f", "f", "e", "c", "t", " ", "t", "h", "e", " ", "m", "e", "a", "n", "i", "n", "g", " ", "o", "f", " ", "t", "h", "e", " ", "c", "o", "d", "e">>,
    <<"r", "e", "f", "a", "c", "t", "o", "r", " ", " ", " ", " ", "A", " ", "c", "o", "d", "e", " ", "c", "h", "a", "n", "g", "e", " ", "t", "h", "a", "t", " ", "n", "e", "i", "t", "h", "e", "r", " ", "f", "i", "x", "e", "s", " ", "a", " ", "b", "u", "g", " ", "n", "o", "r", " ", "a", "d", "d", "s", " ", "a", " ", "f", "e", "a", "t", "u", "r", "e">>,
    <<"p", "e", "r", "f", " ", " ", " ", " ", " ", " ", " ", " ", "A", " ", "c", "o", "d", "e", " ", "c", "h", "a", "n", "g", "e", " ", "t", "h", "a", "t", " ", "i", "m", "p", "r", "o", "v", "e", "s", " ", "p", "e", "r", "f", "o", "r", "m", "a", "n", "c", "e">>,
    <<"t", "e", "s", "t", " ", " ", " ", " ", " ", " ", " ", " ", "A", "d", "d", "i", "n", "g", " ", "m", "i", "s", "s", "i", "n", "g", " ", "t", "e", "s", "t", "s", " ", "o", "r", " ", "c", "o", "r", "r", "e", "c", "t", "i", "n", "g", " ", "e", "x", "i", "s", "t", "i", "n", "g", " ", "t", "e", "s", "t", "s">>,
    <<"b", "u", "i", "l", "d", " ", " ", " ", " ", " ", " ", " ", "C", "h", "a", "n", "g", "e", "s", " ", "t", "h", "a", "t", " ", "a", "f", "f", "e", "c", "t", " ", "t", "h", "e", " ", "b", "u", "i", "l", "d", " ", "s", "y", "s", "t", "e", "m", " ", "o", "r", " ", "e", "x", "t", "e", "r", "n", "a", "l", " ", "d", "e", "p", "e", "n", "d", "e", "n", "c", "i", "e", "s">>,
    <<"c", "i", " ", " ", " ", " ", " ", " ", " ", " ", " ", " ", "C", "h", "a", "n", "g", "e", "s", " ", "t", "o", " ", "o", "u", "r", " ", "C", "I", " ", "c", "o", "n", "f", "i", "g", "u", "r", "a", "t", "i", "o", "n", " ", "f", "i", "l", "e", "s", " ", "a", "n", "d", " ", "s", "c", "r", "i", "p", "t", "s">>,
    <<"c", "h", "o", "r", "e", " ", " ", " ", " ", " ", " ", " ", "O", "t", "h", "e", "r", " ", "c", "h", "a", "n", "g", "e", "s", " ", "t", "h", "a", "t", " ", "d", "o", "n", "'", "t", " ", "m", "o", "d", "i", "f", "y", " ", "s", "r", "c", " ", "o", "r", " ", "t", "e", "s", "t", " ", "f", "i", "l", "e", "s">>,
    <<"r", "e", "v", "e", "r", "t", " ", " ", " ", " ", " ", " ", "R", "e", "v", "e", "r", "t", "s", " ", "a", " ", "p", "r", "e", "v", "i", "o", "u", "s", " ", "c", "o", "m", "m", "i", "t">>
>>

LowerLetters == <<"a", "b", "c", "d", "e", "f", "g", "h", "i", "j", "k", "l", "m", "n", "o", "p", "q", "r", "s", "t", "u", "v", "w", "x", "y", "z">>
UpperLetters == <<"A", "B", "C", "D", "E", "F", "G", "H", "I", "J", "K", "L", "M", "N", "O", "P", "Q", "R", "S", "T", "U", "V", "W", "X", "Y", "Z">>

\* char::to_lowercase and char::to_uppercase on ASCII text.
LowerChar(c) ==
    IF \E i \in 1..26 : UpperLetters[i] = c
    THEN LowerLetters[CHOOSE i \in 1..26 : UpperLetters[i] = c]
    ELSE c

UpperChar(c) ==
    IF \E i \in 1..26 : LowerLetters[i] = c
    THEN UpperLetters[CHOOSE i \in 1..26 : LowerLetters[i] = c]
    ELSE c

\* str::to_lowercase, str::to_uppercase
to_lowercase(s) == [i \in 1..Len(s) |-> LowerChar(s[i])]
to_uppercase(s) == [i \in 1..Len(s) |-> UpperChar(s[i])]

\* str::replace(from, to) for a character `from` and a text `to`.
RECURSIVE replace(_, _, _)
replace(s, from, to) ==
    IF s = <<>> THEN <<>>
    ELSE (IF Head(s) = from THEN to ELSE <<Head(s)>>) \o replace(Tail(s), from, to)

\* The first piece of s up to the character sep (all of s when it has none).
RECURSIVE UpTo(_, _)
UpTo(s, sep) ==
    IF s = <<>> \/ Head(s) = sep THEN <<>>
    ELSE <<Head(s)>> \o UpTo(Tail(s), sep)

\* str::split(sep).collect(): the pieces between the separators, empty ones kept.
RECURSIVE split(_, _)
split(s, sep) ==
    LET first == UpTo(s, sep) IN
    IF Len(first) = Len(s) THEN <<first>>
    ELSE <<first>> \o split(SubSeq(s, Len(first) + 2, Len(s)), sep)

\* The first word of s up to whitespace.
RECURSIVE WordPrefix(_)
WordPrefix(s) ==
    IF s = <<>> \/ IsWhitespace(Head(s)) THEN <<>>
    ELSE <<Head(s)>> \o WordPrefix(Tail(s))

\* An option shown whole as the type, its description included.
Keyword_WholeOption(option) == option

\* _type.split_whitespace().collect()[0]: the keyword of the selected option.
Keyword(option) == WordPrefix(TrimStart(option))

\* get_not_empty_validator: Valid unless the value is empty.
get_not_empty_validator(value) == ~is_empty(value)

\* The commit message of ask_commit.
CommitName(t, sc, n) ==
    IF sc.some /\ ~is_empty(sc.val)
    THEN t \o <<"(">> \o Trim(sc.val) \o <<")", ":", " ">> \o n
    ELSE t \o <<":", " ">> \o n

\* A slug that keeps the case of the name.
Slug_KeepCase(n) == replace(replace(n, " ", <<"-">>), "'", <<>>)

\* name.replace(' ', "-").replace('\'', "").to_lowercase()
Slug(n) == to_lowercase(replace(replace(n, " ", <<"-">>), "'", <<>>))

\* The branch of ask_init.
InitBranch(t, n) == t \o <<"/">> \o Slug(n)

\* format!("https://github.com/{}/compare/{}?expand=1", repo, branch)
CompareUrl(repo, b) ==
    <<"h", "t", "t", "p", "s", ":", "/", "/", "g", "i", "t", "h", "u", "b", ".", "c", "o", "m", "/">> \o repo \o <<"/", "c", "o", "m", "p", "a", "r", "e", "/">> \o b \o <<"?", "e", "x", "p", "a", "n", "d", "=", "1">>

Limb == 65536

DigitChars == <<"0", "1", "2", "3", "4", "5", "6", "7", "8", "9">>
IsDigit(c) == \E i \in 1..10 : DigitChars[i] = c
DigitValue(c) == (CHOOSE i \in 1..10 : DigitChars[i] = c) - 1

\* The digits of s accumulated into a u32 kept as two 16-bit limbs, with
\* the checked multiplication and addition of the parser: ok is FALSE on a
\* character that is no digit and on overflow.
RECURSIVE Accumulate(_, _)
Accumulate(s, acc) ==
    IF s = <<>> THEN acc
    ELSE IF ~acc.ok \/ ~IsDigit(Head(s)) THEN [acc EXCEPT !.ok = FALSE]
    ELSE LET lo == acc.lo * 10 + DigitValue(Head(s))
             hi == acc.hi * 10 + lo \div Limb
         IN  IF hi >= Limb
             THEN [acc EXCEPT !.ok = FALSE]
             ELSE Accumulate(Tail(s), [ok |-> TRUE, hi |-> hi, lo |-> lo % Limb])

\* A parse that accepts every text of sign and digits, whatever its value.
parse_u32_is_ok_Unbounded(s) ==
    LET digits == IF s # <<>> /\ Head(s) = "+" THEN Tail(s) ELSE s IN
    digits # <<>> /\ \A i \in 1..Len(digits) : IsDigit(digits[i])

\* str::parse::<u32>().is_ok(): an optional '+', then at least one digit,
\* the value within 32 bits.
parse_u32_is_ok(s) ==
    LET digits == IF s # <<>> /\ Head(s) = "+" THEN Tail(s) ELSE s IN
    /\ digits # <<>>
    /\ Accumulate(digits, [ok |-> TRUE, hi |-> 0, lo |-> 0]).ok

\* The pull request name of ask_pr.
PrName(msg, lb) ==
    LET splited_branch == split(lb, "-") IN
    IF Len(splited_branch) > 1 /\ parse_u32_is_ok(splited_branch[2])
    THEN msg \o <<" ", "[">> \o to_uppercase(splited_branch[1]) \o <<"-">>
             \o splited_branch[2] \o <<"]">>
    ELSE msg

\* A pull request branch made like the branch of ask_init.
PrBranch_Slugged(t, lb) == t \o <<"/">> \o Slug(lb)

\* format!("{}/{}", _type, &linear_branch)
PrBranch(t, lb) == t \o <<"/">> \o lb

\* A confirmation that returns the plan whatever the answer.
ConfirmOutcome_AnyAnswer(answer, e) ==
    IF answer \in {"yes", "no"} THEN [kind |-> "ok", err |-> ""] ELSE [kind |-> "err", err |-> e]

\* The match on the answer of Confirm::new("Confirm? (y/n)").prompt().
ConfirmOutcome(answer, e) ==
    CASE answer = "yes" -> [kind |-> "ok", err |-> ""]
      [] answer = "no" -> [kind |-> "err", err |-> "OperationCanceled"]
      [] OTHER -> [kind |-> "err", err |-> e]

(***************************************************************************)
(* The answers the prompts may get.                                        *)
(***************************************************************************)
NameChars == {"a", "B", " ", "'"}
ScopeChars == {"s", " "}
BranchChars == {"p", "-", "1"}

NameExamples == {
    <<"a", "d", "d", " ", "l", "o", "g", "i", "n">>,
    <<"h", "a", "n", "d", "l", "e", " ", "e", "x", "p", "i", "r", "e", "d", " ", "t", "o", "k", "e", "n", "s">>,
    <<" ", "D", "o", "n", "'", "t", " ", "S", "t", "o", "p", " ">>}

ScopeExamples == {
    <<"a", "u", "t", "h">>,
    <<" ", "s", " ">>}

BranchExamples == {
    <<"w", "e", "b", "-", "4", "8", "2", "-", "l", "o", "g", "i", "n", "-", "f", "i", "x">>,
    <<"p", "r", "o", "j", "-", "1", "2", "3", "-", "e", "x", "t", "r", "a">>,
    <<"p", "r", "o", "j">>,
    <<"p", "r", "o", "j", "-", "a", "b", "c">>,
    <<"a", "-", "4", "2", "9", "4", "9", "6", "7", "2", "9", "5">>,
    <<"a", "-", "4", "2", "9", "4", "9", "6", "7", "2", "9", "6">>,
    <<"p", "-", "+", "1">>,
    <<"M", "y", " ", "B", "r", "a", "n", "c", "h", "'", "s">>}

NameInputs == Strs(NameChars, MaxName) \cup NameExamples
ScopeInputs == {None} \cup {Some(s) : s \in Strs(ScopeChars, MaxScope) \cup ScopeExamples}
BranchInputs == Strs(BranchChars, MaxBranch) \cup BranchExamples

\* The errors a prompt may end with; a skippable prompt turns a cancellation
\* into "no answer".
PromptErrors == {"OperationCanceled", "OperationInterrupted"}
SkippableErrors == {"OperationInterrupted"}

\* What git::get_current_repo returns: owner/repo, or nothing on failure.
RepoResults == {None, Some(<<"o", "/", "r">>)}

FlowOk == [kind |-> "ok", b |-> FALSE, s |-> <<>>, err |-> ""]

\* A prompt ends with the error e, which the `?` hands to the caller.
Fail(e) ==
    /\ raised' = e
    /\ result' = Err(e)
    /\ pc' = "done"

CallAskCommit ==
    /\ flow = "none"
    /\ flow' = "commit"
    /\ pc' = "type"
    /\ UNCHANGED <<linear_branch, _type, scope, name, commit_name, branch,
                   gh_compare_url, pr_name, confirm, raised, result>>
    /\ UNCHANGED <<storeVars, crashVars>>

CallAskInit ==
    /\ flow = "none"
    /\ flow' = "init"
    /\ pc' = "type"
    /\ UNCHANGED <<linear_branch, _type, scope, name, commit_name, branch,
                   gh_compare_url, pr_name, confirm, raised, result>>
    /\ UNCHANGED <<storeVars, crashVars>>

CallAskPr ==
    /\ flow = "none"
    /\ flow' = "pr"
    /\ pc' = "linear"
    /\ UNCHANGED <<linear_branch, _type, scope, name, commit_name, branch,
                   gh_compare_url, pr_name, confirm, raised, result>>
    /\ UNCHANGED <<storeVars, crashVars>>

\* "Linear branch name:": an empty answer is refused and asked again.
AnswerLinear ==
    /\ pc = "linear"
    /\ \/ \E answer \in BranchInputs :
            IF get_not_empty_validator(answer)
            THEN /\ linear_branch' = answer
                 /\ pc' = "type"
                 /\ UNCHANGED <<raised, result>>
            ELSE UNCHANGED <<linear_branch, pc, raised, result>>
       \/ \E e \in PromptErrors : Fail(e) /\ UNCHANGED linear_branch
    /\ UNCHANGED <<flow, _type, scope, name, commit_name, branch, gh_compare_url,
                   pr_name, confirm>>
    /\ UNCHANGED <<storeVars, crashVars>>

\* "Type:": one of the options is selected.
SelectType ==
    /\ pc = "type"
    /\ \/ \E i \in 1..Len(type_options) :
            /\ _type' = Keyword(type_options[i])
            /\ pc' = "scope"
            /\ UNCHANGED <<raised, result>>
       \/ \E e \in PromptErrors : Fail(e) /\ UNCHANGED _type
    /\ UNCHANGED <<flow, linear_branch, scope, name, commit_name, branch,
                   gh_compare_url, pr_name, confirm>>
    /\ UNCHANGED <<storeVars, crashVars>>

\* "Scope (optional):": a text, or no answer.
AnswerScope ==
    /\ pc = "scope"
    /\ \/ \E answer \in ScopeInputs :
            /\ scope' = answer
            /\ pc' = "name"
            /\ UNCHANGED <<raised, result>>
       \/ \E e \in SkippableErrors : Fail(e) /\ UNCHANGED scope
    /\ UNCHANGED <<flow, linear_branch, _type, name, commit_name, branch,
                   gh_compare_url, pr_name, confirm>>
    /\ UNCHANGED <<storeVars, crashVars>>

\* What follows ask_commit in the entry point that called it, up to its next
\* prompt or its return.
AfterCommit(n, msg) ==
    IF flow = "commit" THEN
            /\ result' = FlowOk
            /\ pc' = "done"
            /\ UNCHANGED <<branch, gh_compare_url, pr_name, raised>>
    ELSE IF flow = "init" THEN
            /\ branch' = InitBranch(_type, n)
            /\ \E repo \in RepoResults :
                 IF repo.some
                 THEN /\ gh_compare_url' = CompareUrl(repo.val, InitBranch(_type, n))
                      /\ pc' = "confirm"
                      /\ UNCHANGED <<raised, result>>
                 ELSE /\ Fail("RepoError")
                      /\ UNCHANGED gh_compare_url
            /\ UNCHANGED pr_name
    ELSE
            /\ pr_name' = PrName(msg, linear_branch)
            /\ branch' = PrBranch(_type, linear_branch)
            /\ result' = FlowOk
            /\ pc' = "done"
            /\ UNCHANGED <<gh_compare_url, raised>>

\* "Name:": an empty answer is refused and asked again; the answer is
\* trimmed, the commit message is made and ask_commit returns.
AnswerName ==
    /\ pc = "name"
    /\ \/ \E answer \in NameInputs :
            IF get_not_empty_validator(answer)
            THEN /\ name' = Trim(answer)
                 /\ commit_name' = CommitName(_type, scope, Trim(answer))
                 /\ AfterCommit(Trim(answer), CommitName(_type, scope, Trim(answer)))
            ELSE UNCHANGED <<name, commit_name, branch, gh_compare_url, pr_name,
                             raised, result, pc>>
       \/ \E e \in PromptErrors :
            /\ Fail(e)
            /\ UNCHANGED <<name, commit_name, branch, gh_compare_url, pr_name>>
    /\ UNCHANGED <<flow, linear_branch, _type, scope, confirm>>
    /\ UNCHANGED <<storeVars, crashVars>>

\* "Confirm? (y/n)" of ask_init.
AnswerConfirm ==
    /\ pc = "confirm"
    /\ \/ \E answer \in {"yes", "no"} :
            /\ confirm' = answer
            /\ raised' = raised
            /\ result' = [FlowOk EXCEPT !.kind = ConfirmOutcome(answer, "").kind,
                                        !.err = ConfirmOutcome(answer, "").err]
       \/ \E e \in PromptErrors :
            /\ confirm' = "err"
            /\ raised' = e
            /\ result' = [FlowOk EXCEPT !.kind = ConfirmOutcome("err", e).kind,
                                        !.err = ConfirmOutcome("err", e).err]
    /\ pc' = "done"
    /\ UNCHANGED <<flow, linear_branch, _type, scope, name, commit_name, branch,
                   gh_compare_url, pr_name>>
    /\ UNCHANGED <<storeVars, crashVars>>

NextFlow ==
    \/ CallAskCommit
    \/ CallAskInit
    \/ CallAskPr
    \/ AnswerLinear
    \/ SelectType
    \/ AnswerScope
    \/ AnswerName
    \/ AnswerConfirm

SpecFlow == Init /\ [][NextFlow]_vars

(***************************************************************************)
(* Claims about the prompts under SpecFlow.                                *)
(***************************************************************************)
\* The keywords of the eleven commit kinds.
Kinds == {
    <<"f", "e", "a", "t">>,
    <<"f", "i", "x">>,
    <<"d", "o", "c", "s">>,
    <<"s", "t", "y", "l", "e">>,
    <<"r", "e", "f", "a", "c", "t", "o", "r">>,
    <<"p", "e", "r", "f">>,
    <<"t", "e", "s", "t">>,
    <<"b", "u", "i", "l", "d">>,
    <<"c", "i">>,
    <<"c", "h", "o", "r", "e">>,
    <<"r", "e", "v", "e", "r", "t">>}

\* ask_commit has returned its message to the entry point.
AskCommitReturned == commit_name # <<>>

\* C4 as stated: the message is "{type}: {name}" when the scope is absent or
\* empty and "{type}({scope}): {name}" with the scope as answered otherwise,
\* the type being the keyword alone.
C4_MessageScopeAsAnswered ==
    AskCommitReturned
        => /\ _type \in Kinds
           /\ commit_name =
                IF ~scope.some \/ scope.val = <<>>
                THEN _type \o <<":", " ">> \o name
                ELSE _type \o <<"(">> \o scope.val \o <<")", ":", " ">> \o name

\* C4 amended: the message is "{type}: {name}" when the scope is absent or
\* empty and "{type}({scope}): {name}" with the scope trimmed otherwise, the
\* type being the keyword alone.
C4_MessageScopeTrimmed ==
    AskCommitReturned
        => /\ _type \in Kinds
           /\ commit_name =
                IF ~scope.some \/ scope.val = <<>>
                THEN _type \o <<":", " ">> \o name
                ELSE _type \o <<"(">> \o Trim(scope.val) \o <<")", ":", " ">> \o name

\* C4 witness: ask_commit returned a message for a scope answered with
\* blanks around it.
C4_Witness ==
    /\ flow = "commit"
    /\ result.kind = "ok"
    /\ scope = Some(<<" ", "s", " ">>)
    /\ _type = <<"f", "i", "x">>
    /\ name = <<"a">>
    /\ commit_name = <<"f", "i", "x", "(", "s", ")", ":", " ", "a">>

\* C5: the name ask_commit returns is trimmed and never empty.
C5_NameNeverEmpty ==
    AskCommitReturned => (name # <<>> /\ Trim(name) = name)

\* The issue branch name cut at its first two hyphens.
HasDash(s) == \E i \in 1..Len(s) : s[i] = "-"
FirstDash(s) == CHOOSE i \in 1..Len(s) : s[i] = "-" /\ \A j \in 1..(i - 1) : s[j] # "-"
FirstSegment(s) == SubSeq(s, 1, FirstDash(s) - 1)
AfterFirstDash(s) == SubSeq(s, FirstDash(s) + 1, Len(s))
SecondSegment(s) ==
    IF HasDash(AfterFirstDash(s)) THEN FirstSegment(AfterFirstDash(s)) ELSE AfterFirstDash(s)

\* The digits of a text once an optional leading '+' is dropped.
Unsigned(s) == IF s # <<>> /\ Head(s) = "+" THEN Tail(s) ELSE s

\* A text that reads as a non-negative integer of any size.
IsNonNegInteger(s) ==
    /\ Unsigned(s) # <<>>
    /\ \A i \in 1..Len(Unsigned(s)) : IsDigit(Unsigned(s)[i])

RECURSIVE StripZeros(_)
StripZeros(s) == IF s # <<>> /\ Head(s) = "0" THEN StripZeros(Tail(s)) ELSE s

U32MaxDigits == <<"4", "2", "9", "4", "9", "6", "7", "2", "9", "5">>

\* For digit texts of equal length: s is at most t.
DigitsLeq(s, t) ==
    \/ s = t
    \/ \E i \in 1..Len(s) :
         /\ DigitValue(s[i]) < DigitValue(t[i])
         /\ \A j \in 1..(i - 1) : s[j] = t[j]

\* A non-negative integer of at most 4294967295.
FitsU32(s) ==
    /\ IsNonNegInteger(s)
    /\ LET d == StripZeros(Unsigned(s)) IN
       \/ Len(d) < Len(U32MaxDigits)
       \/ Len(d) = Len(U32MaxDigits) /\ DigitsLeq(d, U32MaxDigits)

\* The commit message followed by the bracketed issue tag.
Tagged(msg, lb) ==
    msg \o <<" ", "[">> \o to_uppercase(FirstSegment(lb)) \o <<"-">>
        \o SecondSegment(lb) \o <<"]">>

\* C6 as stated: pr_name is the commit message with " [FIRST-SECOND]"
\* appended when the issue branch name has at least two segments and the
\* second reads as a non-negative integer, and the commit message otherwise.
C6_TagForAnyInteger ==
    (flow = "pr" /\ result.kind = "ok")
        => pr_name =
             IF HasDash(linear_branch) /\ IsNonNegInteger(SecondSegment(linear_branch))
             THEN Tagged(commit_name, linear_branch)
             ELSE commit_name

\* C6 amended: pr_name is the commit message with " [FIRST-SECOND]" appended
\* when the issue branch name has at least two segments and the second is a
\* non-negative integer of at most 4294967295 (what fits 32 bits), and the
\* commit message otherwise.
C6_TagForU32 ==
    (flow = "pr" /\ result.kind = "ok")
        => pr_name =
             IF HasDash(linear_branch) /\ FitsU32(SecondSegment(linear_branch))
             THEN Tagged(commit_name, linear_branch)
             ELSE commit_name

\* C6 witness: "web-482-login-fix" with feat and "add login".
C6_Witness ==
    /\ flow = "pr"
    /\ result.kind = "ok"
    /\ linear_branch = <<"w", "e", "b", "-", "4", "8", "2", "-", "l", "o", "g", "i", "n", "-", "f", "i", "x">>
    /\ _type = <<"f", "e", "a", "t">>
    /\ name = <<"a", "d", "d", " ", "l", "o", "g", "i", "n">>
    /\ pr_name = <<"f", "e", "a", "t", ":", " ", "a", "d", "d", " ", "l", "o", "g", "i", "n", " ", "[", "W", "E", "B", "-", "4", "8", "2", "]">>
    /\ branch = <<"f", "e", "a", "t", "/", "w", "e", "b", "-", "4", "8", "2", "-", "l", "o", "g", "i", "n", "-", "f", "i", "x">>

\* C7: ask_init returns its triple exactly when the confirmation was reached
\* and answered yes; a no gives OperationCanceled, and the error a prompt
\* ended with is the error returned.
C7_PlanOnlyAfterYes ==
    flow = "init"
        => /\ (result.kind = "ok") <=> (confirm = "yes")
           /\ (confirm = "no") => (result = Err("OperationCanceled"))
           /\ (raised # "") => (result = Err(raised))
           /\ (confirm # "none")
                => (commit_name # <<>> /\ branch # <<>> /\ gh_compare_url # <<>>)

\* C7 witness: the confirmation was answered yes and the triple returned.
C7_Witness ==
    /\ flow = "init"
    /\ pc = "done"
    /\ confirm = "yes"
    /\ result.kind = "ok"
    /\ gh_compare_url # <<>>

\* The slug of a text, one character at a time: apostrophes dropped, spaces
\* turned into hyphens, letters lower-cased.
RECURSIVE SlugOf(_)
SlugOf(s) ==
    IF s = <<>> THEN <<>>
    ELSE (IF Head(s) = "'" THEN <<>>
          ELSE IF Head(s) = " " THEN <<"-">>
          ELSE <<LowerChar(Head(s))>>) \o SlugOf(Tail(s))

IsUpper(c) == \E i \in 1..26 : UpperLetters[i] = c

\* No space, no apostrophe and no upper-case letter.
SlugClean(s) == \A i \in 1..Len(s) : s[i] # " " /\ s[i] # "'" /\ ~IsUpper(s[i])

\* What follows "{type}/" in the branch.
AfterType(b) == SubSeq(b, Len(_type) + 2, Len(b))

\* The message starts with the type.
MessageHasType ==
    /\ Len(commit_name) > Len(_type)
    /\ SubSeq(commit_name, 1, Len(_type)) = _type
    /\ commit_name[Len(_type) + 1] \in {":", "("}

\* C8: the branch ask_init returns is "{type}/{slug}", the type being the one
\* that starts the commit message and the slug the name with spaces turned
\* into hyphens, apostrophes removed and lower-cased; fix / auth / "handle
\* expired tokens" gives "fix(auth): handle expired tokens" and
\* "fix/handle-expired-tokens".
C8_InitBranchIsSlug ==
    (flow = "init" /\ result.kind = "ok")
        => /\ branch = _type \o <<"/">> \o SlugOf(name)
           /\ MessageHasType
           /\ SlugClean(AfterType(branch))
           /\ (_type = <<"f", "i", "x">> /\ scope = Some(<<"a", "u", "t", "h">>) /\ name = <<"h", "a", "n", "d", "l", "e", " ", "e", "x", "p", "i", "r", "e", "d", " ", "t", "o", "k", "e", "n", "s">>)
                => (commit_name = <<"f", "i", "x", "(", "a", "u", "t", "h", ")", ":", " ", "h", "a", "n", "d", "l", "e", " ", "e", "x", "p", "i", "r", "e", "d", " ", "t", "o", "k", "e", "n", "s">> /\ branch = <<"f", "i", "x", "/", "h", "a", "n", "d", "l", "e", "-", "e", "x", "p", "i", "r", "e", "d", "-", "t", "o", "k", "e", "n", "s">>)

\* C8 witness: fix / auth / "handle expired tokens" was confirmed.
C8_Witness ==
    /\ flow = "init"
    /\ result.kind = "ok"
    /\ _type = <<"f", "i", "x">>
    /\ scope = Some(<<"a", "u", "t", "h">>)
    /\ name = <<"h", "a", "n", "d", "l", "e", " ", "e", "x", "p", "i", "r", "e", "d", " ", "t", "o", "k", "e", "n", "s">>
    /\ branch = <<"f", "i", "x", "/", "h", "a", "n", "d", "l", "e", "-", "e", "x", "p", "i", "r", "e", "d", "-", "t", "o", "k", "e", "n", "s">>

\* The text the user entered for the branch of the running flow.
BranchText == IF flow = "init" THEN name ELSE linear_branch

\* C9 as stated: the branch of every plan of ask_init and ask_pr is
\* "{type}/{slug}", the slug made from the entered text, with no space, no
\* apostrophe and no upper-case letter after "{type}/".
C9_EveryBranchIsSlug ==
    (flow \in {"init", "pr"} /\ result.kind = "ok")
        => /\ branch = _type \o <<"/">> \o SlugOf(BranchText)
           /\ SlugClean(AfterType(branch))

\* C9 amended: the branch of a plan of ask_init is "{type}/{slug}" with no
\* space, apostrophe or upper-case letter after "{type}/"; the branch of a
\* plan of ask_pr is "{type}/" followed by the issue branch name exactly as
\* entered.
C9_BranchPerFlow ==
    /\ (flow = "init" /\ result.kind = "ok")
         => /\ branch = _type \o <<"/">> \o SlugOf(name)
            /\ SlugClean(AfterType(branch))
    /\ (flow = "pr" /\ result.kind = "ok")
         => /\ branch = _type \o <<"/">> \o linear_branch
            /\ AfterType(branch) = linear_branch

\* C9 witness: ask_pr returned a branch that keeps the blanks, apostrophe and
\* capitals of the issue branch name.
C9_Witness ==
    /\ flow = "pr"
    /\ result.kind = "ok"
    /\ linear_branch = <<"M", "y", " ", "B", "r", "a", "n", "c", "h", "'", "s">>
    /\ ~SlugClean(AfterType(branch))

====
